---------------------------- MODULE Spec2Model ----------------------------
(***************************************************************************)
(* A model of trainz_dl (src/trainz_dl/__init__.py): the four routes of    *)
(* the /api router, the time-expiring response cache put in front of two   *)
(* of them, and the two size helpers get_size and readable_size.           *)
(*                                                                         *)
(* Text is modelled as sequences of one-character strings, so that         *)
(* formatting, prefix tests, length tests and pattern matching are         *)
(* computed character by character as the Python code computes them.       *)
(***************************************************************************)
EXTENDS Integers, Sequences, FiniteSets, TLC

VARIABLES store, fs, now, cache, procs, nreq, sizeRuns, call

vars == <<store, fs, now, cache, procs, nreq, sizeRuns, call>>

(***************************************************************************)
(* Bounds of the model.                                                    *)
(***************************************************************************)
MaxAssets == 3
MaxProcs == 2
MaxRequests == 2
MaxNodes == 3
MaxBytes == 2100
NearBy == 60

\* Python's None, for optional integers: <<>> is None, <<x>> is x.
None == <<>>
Some(x) == <<x>>

(***************************************************************************)
(* Text helpers.                                                           *)
(***************************************************************************)
DigitChars == <<"0", "1", "2", "3", "4", "5", "6", "7", "8", "9">>

DigitChar(d) == DigitChars[d + 1]

IsDigit(c) == \E d \in 0..9 : DigitChars[d + 1] = c

\* str.startswith
StartsWith(s, prefix) ==
    /\ Len(s) >= Len(prefix)
    /\ SubSeq(s, 1, Len(prefix)) = prefix

\* The decimal digits of a natural number.
RECURSIVE Decimal(_)
Decimal(n) ==
    IF n < 10 THEN <<DigitChar(n)>>
    ELSE Decimal(n \div 10) \o <<DigitChar(n % 10)>>

\* Three digits, zero padded: one group of the ',' format option.
Pad3(n) ==
    <<DigitChar(n \div 100), DigitChar((n \div 10) % 10), DigitChar(n % 10)>>

\* format(n, ',') of a natural number: groups of three digits from the right.
RECURSIVE Grouped(_)
Grouped(n) ==
    IF n < 1000 THEN Decimal(n)
    ELSE Grouped(n \div 1000) \o <<",">> \o Pad3(n % 1000)

\* 1024 ** k
RECURSIVE Pow1024(_)
Pow1024(k) == IF k = 0 THEN 1 ELSE 1024 * Pow1024(k - 1)

(***************************************************************************)
(* readable_size.  int(size) / 1024 ** k is exact in binary floating point *)
(* (a division by a power of two of an integer below 2^53), and the '.1f'  *)
(* format rounds the exact value to one decimal, ties to the even digit.   *)
(* Tenths(n, k) is that rounded value counted in tenths.  It is computed   *)
(* on the base-1024 digits of n so that no intermediate value leaves the   *)
(* 32-bit range of the model checker's integers.                           *)
(***************************************************************************)
Tenths(n, k) ==
    LET P  == Pow1024(k - 1)
        a  == n \div P
        b  == n % P
        A  == a \div 1024
        a0 == a % 1024
        t  == (10 * a0) \div 1024
        Y  == (10 * a0) % 1024
        \* the part cut off, Y + 10*b/P in 1/1024 of a tenth, against one half
        above == \/ Y > 512
                 \/ Y = 512 /\ b > 0
                 \/ Y >= 503 /\ Y < 512 /\ 10 * b > (512 - Y) * P
        tie   == \/ Y = 512 /\ b = 0
                 \/ Y >= 503 /\ Y < 512 /\ 10 * b = (512 - Y) * P
        low   == 10 * A + t
    IN  IF above \/ (tie /\ low % 2 = 1) THEN low + 1 ELSE low

\* f'{x:,.1f}' of the value counted in tenths
Fixed1(tenths) == Grouped(tenths \div 10) \o <<".", DigitChar(tenths % 10)>>

units == <<<<"K", "B">>, <<"M", "B">>, <<"G", "B">>, <<"T", "B">>>>

\* f'{int(size):,} B'
BytesText(size) == Grouped(size) \o <<" ", "B">>

\* f'{int(size) / 1024 ** (i + 1):,.1f} {u}', with k = i + 1
UnitText(size, k) == Fixed1(Tenths(size, k)) \o <<" ">> \o units[k]

size_list(size) ==
    <<BytesText(size)>> \o [i \in 1..Len(units) |-> UnitText(size, i)]

NotZeroPoint(s) == ~StartsWith(s, <<"0", ".">>)

readable_size(size) ==
    LET kept == SelectSeq(size_list(size), NotZeroPoint)
    IN  kept[Len(kept)]

(***************************************************************************)
(* get_size.  The tree below start_path is a sequence of nodes; node i     *)
(* lies in the directory tree[i].parent, where 0 is start_path itself and  *)
(* a parent is a real directory listed earlier.  A symbolic link records   *)
(* what it points to (a file of some size, a directory, or nothing).       *)
(***************************************************************************)
FileSizes == {10, 100}

DirNode(p)        == [parent |-> p, kind |-> "dir", size |-> 0, target |-> "none"]
FileNode(p, s)    == [parent |-> p, kind |-> "file", size |-> s, target |-> "none"]
LinkNode(p, t, s) == [parent |-> p, kind |-> "symlink", size |-> s, target |-> t]

NodesAt(p) ==
    {DirNode(p)} \cup {FileNode(p, s) : s \in FileSizes}
      \cup {LinkNode(p, "file", s) : s \in FileSizes}
      \cup {LinkNode(p, "dir", 0), LinkNode(p, "missing", 0)}

IsDir(tree, d) == d = 0 \/ (d \in 1..Len(tree) /\ tree[d].kind = "dir")

\* The directories of a tree: start_path and the nodes that are directories.
DirsOf(tree) == {d \in 0..Len(tree) : IsDir(tree, d)}

\* The trees of up to n nodes: a tree grows by one entry in one of its
\* directories.
RECURSIVE TreesUpTo(_)
TreesUpTo(n) ==
    IF n = 0 THEN {<<>>}
    ELSE LET prev == TreesUpTo(n - 1)
         IN  prev \cup UNION {{Append(t, nd) : nd \in UNION {NodesAt(p) : p \in DirsOf(t)}} :
                                t \in {x \in prev : Len(x) = n - 1}}

Trees == TreesUpTo(MaxNodes)

Children(tree, d) == {i \in 1..Len(tree) : tree[i].parent = d}

\* os.walk's split of one directory's entries: an entry is listed in dirs
\* when is_dir() holds (a link to a directory included), in files otherwise.
WalkDirs(tree, d) ==
    {i \in Children(tree, d) :
        \/ tree[i].kind = "dir"
        \/ tree[i].kind = "symlink" /\ tree[i].target = "dir"}

WalkFiles(tree, d) == Children(tree, d) \ WalkDirs(tree, d)

\* os.walk(start_path) with followlinks=False descends into the listed
\* directories that are not symbolic links.
WalkInto(tree, d) == {i \in WalkDirs(tree, d) : tree[i].kind # "symlink"}

\* A mutant of islink: the link test is missing.
islinkNever(tree, i) == FALSE

\* os.path.islink(file_path)
islink(tree, i) == tree[i].kind = "symlink"

\* os.path.getsize(file_path): stat follows a link to its target.
getsize(tree, i) == tree[i].size

RECURSIVE SumOver(_, _)
SumOver(tree, S) ==
    IF S = {} THEN 0
    ELSE LET i == CHOOSE x \in S : TRUE
         IN  (IF ~islink(tree, i) THEN getsize(tree, i) ELSE 0)
               + SumOver(tree, S \ {i})

RECURSIVE WalkFrom(_, _)
WalkFrom(tree, d) ==
    LET RECURSIVE Below(_)
        Below(S) ==
            IF S = {} THEN 0
            ELSE LET i == CHOOSE x \in S : TRUE
                 IN  WalkFrom(tree, i) + Below(S \ {i})
    IN  SumOver(tree, WalkFiles(tree, d)) + Below(WalkInto(tree, d))

get_size(tree) == WalkFrom(tree, 0)

(***************************************************************************)
(* The Asset table.  kuid and file_id carry a unique index (lines 24, 26), *)
(* so the rows of a store have pairwise different kuid and file_id: row i  *)
(* of the model has the i-th kuid and the i-th file_id.                    *)
(***************************************************************************)
Letters == <<"a", "b", "c", "d", "e", "f", "g", "h", "i", "j", "k", "l", "m">>

Code(c) == CHOOSE i \in 1..Len(Letters) : Letters[i] = c

\* The order of two texts: character by character, a proper prefix first.
RECURSIVE TextLeq(_, _)
TextLeq(x, y) ==
    IF x = <<>> THEN TRUE
    ELSE IF y = <<>> THEN FALSE
    ELSE IF Head(x) = Head(y) THEN TextLeq(Tail(x), Tail(y))
    ELSE Code(Head(x)) < Code(Head(y))

\* The uploader of row i: rows 1, 3, ... share one name, so that the order
\* by username has ties, and the rows in between carry a later name.
UsernameOf(i) == IF i % 2 = 1 THEN <<"a", "l">> ELSE <<"b">>

\* "kuid:1:<i>" for odd i, "kuid2:-1:<i>:3" for even i
KuidOf(i) ==
    IF i % 2 = 1
    THEN <<"k", "u", "i", "d", ":", "1", ":">> \o Decimal(i)
    ELSE <<"k", "u", "i", "d", "2", ":", "-", "1", ":">> \o Decimal(i) \o <<":", "3">>

FileIdLength == 32

FileIdOf(i) == [j \in 1..FileIdLength |-> IF j = 1 THEN DigitChar(i % 10) ELSE "f"]

\* The content hash: opaque text, never inspected by the service.
Sha1Of(i) == <<"e", DigitChar(i % 10)>>

Revisions == {1, 2}

Stamps == {1, 2}

RowsOf(i) ==
    {[id |-> i, username |-> UsernameOf(i), kuid |-> KuidOf(i), sha1 |-> Sha1Of(i),
      file_id |-> FileIdOf(i), revision |-> r, last_update |-> t] :
        r \in Revisions, t \in Stamps}

RECURSIVE StoresUpTo(_)
StoresUpTo(n) ==
    IF n = 0 THEN {{}}
    ELSE LET prev == StoresUpTo(n - 1)
         IN  prev \cup {S \cup {a} : S \in prev, a \in RowsOf(n)}

Stores == StoresUpTo(MaxAssets)

\* AssetSchema.model_validate(asset, from_attributes=True)
AssetSchema(a) ==
    [username |-> a.username, kuid |-> a.kuid, sha1 |-> a.sha1,
     file_id |-> a.file_id, revision |-> a.revision]

(***************************************************************************)
(* Queries.                                                                *)
(***************************************************************************)
RECURSIVE SeqsOf(_)
SeqsOf(S) ==
    IF S = {} THEN {<<>>}
    ELSE UNION {{<<a>> \o rest : rest \in SeqsOf(S \ {a})} : a \in S}

\* queryset.order_by("username"): the rows in some order that ascends by
\* username; the order of rows with equal usernames is the database's choice.
OrderByUsername(S) ==
    {q \in SeqsOf(S) :
        \A i \in 1..(Len(q) - 1) : TextLeq(q[i].username, q[i + 1].username)}

\* A mutant of FilterRevisionGt: revision__gte.
FilterRevisionGe(rows, revision) == {a \in rows : a.revision >= revision}

\* Asset.filter(revision__gt=revision)
FilterRevisionGt(rows, revision) == {a \in rows : a.revision > revision}

\* Asset.filter(last_update__gt=last_update)
FilterLastUpdateGt(rows, last_update) == {a \in rows : a.last_update > last_update}

\* A mutant of SelectAssets: the second filter refines the first one.
SelectAssetsBoth(rows, revision, last_update) ==
    LET assets1 == IF revision # None
                   THEN FilterRevisionGt(rows, revision[1]) ELSE rows
    IN  IF last_update # None
        THEN FilterLastUpdateGt(assets1, last_update[1]) ELSE assets1

\* The queryset of get_assets before it is ordered: each filter, when its
\* parameter is given, replaces the queryset built so far.
SelectAssets(rows, revision, last_update) ==
    LET all      == rows
        assets1  == IF revision # None
                    THEN FilterRevisionGt(rows, revision[1]) ELSE all
        assets2  == IF last_update # None
                    THEN FilterLastUpdateGt(rows, last_update[1]) ELSE assets1
    IN  assets2

\* A mutant of last_revision: the revision of the last row listed.
last_row_revision(q) == q[Len(q)].revision

\* max(assets, key=lambda h: h.revision).revision
last_revision(q) ==
    LET h == CHOOSE x \in 1..Len(q) : \A y \in 1..Len(q) : q[y].revision <= q[x].revision
    IN  q[h].revision

\* Asset.get_or_none(kuid=kuid): the rows that match
RowsByKuid(rows, kuid) == {a \in rows : a.kuid = kuid}

\* A mutant of RowsByFileId: the lookup compares the kuid column.
RowsByFileIdOnKuid(rows, file_id) == {a \in rows : a.kuid = file_id}

\* Asset.get_or_none(file_id=file_id): the rows that match
RowsByFileId(rows, file_id) == {a \in rows : a.file_id = file_id}

\* Asset.all().order_by("-revision").first(): the rows it can return
LatestRows(rows) == {a \in rows : \A b \in rows : b.revision <= a.revision}

(***************************************************************************)
(* Path validation, done by the routing layer before a handler runs.       *)
(* The pattern ^(?:kuid:-?\d+:\d+|kuid2:-?\d+:\d+:\d+)$ is matched by a    *)
(* left-to-right scan; a position is an index into the text, 0 is failure. *)
(***************************************************************************)
MatchLit(s, i, lit) ==
    IF i > 0 /\ i + Len(lit) - 1 <= Len(s) /\ SubSeq(s, i, i + Len(lit) - 1) = lit
    THEN i + Len(lit) ELSE 0

\* -?
MatchOptMinus(s, i) ==
    IF i > 0 /\ i <= Len(s) /\ s[i] = "-" THEN i + 1 ELSE i

\* \d+ : the longest run of digits, at least one
RECURSIVE DigitRunEnd(_, _)
DigitRunEnd(s, i) ==
    IF i <= Len(s) /\ IsDigit(s[i]) THEN DigitRunEnd(s, i + 1) ELSE i

MatchDigits(s, i) ==
    IF i > 0 /\ DigitRunEnd(s, i) > i THEN DigitRunEnd(s, i) ELSE 0

\* $ : the end of the text
AtEnd(s, i) == i = Len(s) + 1

MatchKuid1(s) ==
    LET p1 == MatchLit(s, 1, <<"k", "u", "i", "d", ":">>)
        p2 == MatchDigits(s, MatchOptMinus(s, p1))
        p3 == MatchDigits(s, MatchLit(s, p2, <<":">>))
    IN  AtEnd(s, p3)

MatchKuid2(s) ==
    LET p1 == MatchLit(s, 1, <<"k", "u", "i", "d", "2", ":">>)
        p2 == MatchDigits(s, MatchOptMinus(s, p1))
        p3 == MatchDigits(s, MatchLit(s, p2, <<":">>))
        p4 == MatchDigits(s, MatchLit(s, p3, <<":">>))
    IN  AtEnd(s, p4)

\* A mutant of ValidKuid: the pattern without its closing anchor.
ValidKuidUnanchored(kuid) ==
    LET p1 == MatchLit(kuid, 1, <<"k", "u", "i", "d", ":">>)
        p2 == MatchDigits(kuid, MatchOptMinus(kuid, p1))
        p3 == MatchDigits(kuid, MatchLit(kuid, p2, <<":">>))
        q1 == MatchLit(kuid, 1, <<"k", "u", "i", "d", "2", ":">>)
        q2 == MatchDigits(kuid, MatchOptMinus(kuid, q1))
        q3 == MatchDigits(kuid, MatchLit(kuid, q2, <<":">>))
        q4 == MatchDigits(kuid, MatchLit(kuid, q3, <<":">>))
    IN  p3 > 0 \/ q4 > 0

\* Path(regex=...)
ValidKuid(kuid) == MatchKuid1(kuid) \/ MatchKuid2(kuid)

\* Path(min_length=32, max_length=32)
ValidFileId(file_id) == Len(file_id) >= FileIdLength /\ Len(file_id) <= FileIdLength

(***************************************************************************)
(* Requests.  A request in flight is a record: where it stands (pc), its   *)
(* route and parameters, whether the cache answered it (hit), its response *)
(* (resp), and how many queries it has issued to the Asset table.          *)
(***************************************************************************)
\* The workers that serve requests.
Procs == DOMAIN procs

NoArgs == [revision |-> None, last_update |-> None, kuid |-> <<>>, file_id |-> <<>>]

NoResp == [status |-> 0, body |-> [detail |-> "none"]]

IdleProc ==
    [pc |-> "idle", route |-> "none", args |-> NoArgs, hit |-> FALSE,
     resp |-> NoResp, queries |-> 0]

Response(status, body) == [status |-> status, body |-> body]

\* raise HTTPException(status_code=404, detail=...)
NotFound(detail) == Response(404, [detail |-> detail])

\* the routing layer's answer to a path parameter that fails validation
ValidationError == Response(422, [detail |-> "validation error"])

\* an exception no handler catches
ServerError == Response(500, [detail |-> "Internal Server Error"])

\* The routes behind @cache, with their namespaces.
Cached(route) == route \in {"assets", "details"}

Namespace(route) == IF route = "assets" THEN "assets" ELSE "assets-details"

\* The cache key: the namespace, the function and its keyword arguments.
KeyOf(route, args) == [ns |-> Namespace(route), func |-> route, kwargs |-> args]

\* expire=5*60
Expire == 5 * 60

\* A mutant of Expired: entries never expire.
ExpiredNever(e, t) == FALSE

\* InMemoryBackend._get: an entry is dropped once its ttl_ts lies before now.
Expired(e, t) == e.ttl_ts < t

CacheGet(c, key, t) == {e \in c : e.key = key /\ ~Expired(e, t)}

CachePurge(c, key, t) == {e \in c : ~(e.key = key /\ Expired(e, t))}

\* InMemoryBackend.set: the entry of the key is written over.
CacheSet(c, key, value, t) ==
    {e \in c : e.key # key} \cup {[key |-> key, value |-> value, ttl_ts |-> t + Expire]}

\* The state of a request once the routing layer has validated its path.
Routed(route, args) ==
    LET ok == CASE route = "by-kuid" -> ValidKuid(args.kuid)
                [] route = "by-file" -> ValidFileId(args.file_id)
                [] OTHER -> TRUE
    IN  IF ~ok
        THEN [IdleProc EXCEPT !.pc = "done", !.route = route, !.args = args,
                              !.resp = ValidationError]
        ELSE [IdleProc EXCEPT !.pc = IF Cached(route) THEN "cache" ELSE "handler",
                              !.route = route, !.args = args]

\* A request arrives and is taken by a free worker.
Receive(p, route, args) ==
    /\ procs[p].pc = "idle"
    /\ nreq < MaxRequests
    /\ nreq' = nreq + 1
    /\ procs' = [procs EXCEPT ![p] = Routed(route, args)]
    /\ UNCHANGED <<store, fs, now, cache, sizeRuns, call>>

RevisionParams == {None} \cup {Some(r) : r \in Revisions}

LastUpdateParams == {None} \cup {Some(t) : t \in Stamps}

\* GET /api/assets.json
ReceiveAssets(p) ==
    \E r \in RevisionParams, t \in LastUpdateParams :
        Receive(p, "assets", [NoArgs EXCEPT !.revision = r, !.last_update = t])

KuidInputs ==
    {KuidOf(i) : i \in 1..(MaxAssets + 1)}
      \cup {<<"n", "o", "t", "-", "a", "-", "v", "a", "l", "i", "d", "-", "k", "u", "i", "d">>,
            <<"k", "u", "i", "d", ":", "1">>,
            <<"k", "u", "i", "d", ":", "1", ":", "1", ":", "3">>,
            <<"k", "u", "i", "d", "2", ":", "-", "1", ":", "2">>,
            <<"k", "u", "i", "d", ":", "1", ":", "1", "x">>,
            <<"x", "k", "u", "i", "d", ":", "1", ":", "1">>,
            <<"k", "u", "i", "d", ":", "1", ":", "-", "1">>,
            <<"k", "u", "i", "d", ":", "-", ":", "1">>,
            <<"k", "u", "i", "d", ":", "1", ":", "1", "\n">>}

\* GET /api/assets/by-kuid/{kuid}
ReceiveByKuid(p) ==
    \E k \in KuidInputs : Receive(p, "by-kuid", [NoArgs EXCEPT !.kuid = k])

FileIdInputs ==
    {FileIdOf(i) : i \in 1..(MaxAssets + 1)}
      \cup {SubSeq(FileIdOf(1), 1, FileIdLength - 1),
            FileIdOf(1) \o <<"f">>,
            <<"1">>}

\* GET /api/assets/by-file/{file_id}
ReceiveByFile(p) ==
    \E f \in FileIdInputs : Receive(p, "by-file", [NoArgs EXCEPT !.file_id = f])

\* GET /api/assets/details
ReceiveDetails(p) == Receive(p, "details", NoArgs)

\* @cache: the stored response is looked up before the handler is called.
CacheLookup(p) ==
    LET key   == KeyOf(procs[p].route, procs[p].args)
        found == CacheGet(cache, key, now)
    IN  /\ procs[p].pc = "cache"
        /\ cache' = CachePurge(cache, key, now)
        /\ IF found # {}
           THEN \E e \in found :
                    procs' = [procs EXCEPT ![p].pc = "done", ![p].hit = TRUE,
                                           ![p].resp = Response(200, e.value)]
           ELSE procs' = [procs EXCEPT ![p].pc = "handler"]
        /\ UNCHANGED <<store, fs, now, nreq, sizeRuns, call>>

\* What @cache does with the handler's outcome: a returned value is stored
\* under the key, an exception stores nothing.
AfterHandler(c, route, args, resp, t) ==
    IF Cached(route) /\ resp.status = 200
    THEN CacheSet(c, KeyOf(route, args), resp.body, t)
    ELSE c

\* A mutant of AssetsResponse: an empty listing is a success.
AssetsResponseEmptyOk(q) ==
    IF q = <<>> THEN Response(200, [assets |-> <<>>, last_revision |-> 0])
    ELSE Response(200, [assets |-> [i \in 1..Len(q) |-> AssetSchema(q[i])],
                        last_revision |-> last_revision(q)])

\* The response of get_assets to the ordered rows.
AssetsResponse(q) ==
    IF q = <<>> THEN NotFound("No assets found")
    ELSE Response(200, [assets |-> [i \in 1..Len(q) |-> AssetSchema(q[i])],
                        last_revision |-> last_revision(q)])

get_assets(p) ==
    LET args == procs[p].args
    IN  /\ procs[p].pc = "handler"
        /\ procs[p].route = "assets"
        /\ \E q \in OrderByUsername(SelectAssets(store, args.revision, args.last_update)) :
              LET resp == AssetsResponse(q)
              IN  /\ procs' = [procs EXCEPT ![p].pc = "done", ![p].resp = resp,
                                            ![p].queries = @ + 1]
                  /\ cache' = AfterHandler(cache, "assets", args, resp, now)
        /\ UNCHANGED <<store, fs, now, nreq, sizeRuns, call>>

\* The response of a point lookup to the rows that match: get_or_none
\* returns None for no row, the row for one, and raises for several.
LookupResponse(found) ==
    IF found = {} THEN NotFound("Asset not found")
    ELSE IF Cardinality(found) > 1 THEN ServerError
    ELSE Response(200, AssetSchema(CHOOSE a \in found : TRUE))

get_asset_by_kuid(p) ==
    /\ procs[p].pc = "handler"
    /\ procs[p].route = "by-kuid"
    /\ procs' = [procs EXCEPT ![p].pc = "done", ![p].queries = @ + 1,
                   ![p].resp = LookupResponse(RowsByKuid(store, procs[p].args.kuid))]
    /\ UNCHANGED <<store, fs, now, cache, nreq, sizeRuns, call>>

get_asset_by_file(p) ==
    /\ procs[p].pc = "handler"
    /\ procs[p].route = "by-file"
    /\ procs' = [procs EXCEPT ![p].pc = "done", ![p].queries = @ + 1,
                   ![p].resp = LookupResponse(RowsByFileId(store, procs[p].args.file_id))]
    /\ UNCHANGED <<store, fs, now, cache, nreq, sizeRuns, call>>

\* The response of get_assets_details: latest is the set holding the row
\* first() returned, empty when it returned None; latest_asset.revision
\* then raises AttributeError.
DetailsResponse(latest, full_bytes, low_bytes) ==
    IF latest = {} THEN ServerError
    ELSE Response(200, [current_revision |-> (CHOOSE a \in latest : TRUE).revision,
                        full_bytes |-> full_bytes,
                        full_human |-> readable_size(full_bytes),
                        low_bytes |-> low_bytes,
                        low_human |-> readable_size(low_bytes)])

get_assets_details(p) ==
    LET rows == LatestRows(store)
    IN  /\ procs[p].pc = "handler"
        /\ procs[p].route = "details"
        /\ \E latest \in (IF rows = {} THEN {{}} ELSE {{a} : a \in rows}) :
              LET resp == DetailsResponse(latest, get_size(fs.full), get_size(fs.low))
              IN  /\ procs' = [procs EXCEPT ![p].pc = "done", ![p].resp = resp,
                                            ![p].queries = @ + 1]
                  /\ cache' = AfterHandler(cache, "details", procs[p].args, resp, now)
        /\ sizeRuns' = sizeRuns + 1
        /\ UNCHANGED <<store, fs, now, nreq, call>>

\* The response is sent; the worker is free for the next request.
Complete(p) ==
    /\ procs[p].pc = "done"
    /\ procs' = [procs EXCEPT ![p] = IdleProc]
    /\ UNCHANGED <<store, fs, now, cache, nreq, sizeRuns, call>>

\* Time passes: a full cache window, or a second more.
TickSteps == {Expire, Expire + 1}

MaxTime == 2 * Expire + 2

Tick ==
    /\ \E d \in TickSteps : now + d <= MaxTime /\ now' = now + d
    /\ UNCHANGED <<store, fs, cache, procs, nreq, sizeRuns, call>>

NoCall == [fn |-> "none", arg |-> <<>>, ret |-> <<>>]

EmptyFs == [full |-> <<>>, low |-> <<>>]

\* The state after startup_event, over the given table and directories,
\* with the given number of workers.
InitWith(stores, trees, workers) ==
    /\ store \in stores
    /\ fs \in trees
    /\ now = 0
    /\ cache = {}
    /\ procs = [p \in 1..workers |-> IdleProc]
    /\ nreq = 0
    /\ sizeRuns = 0
    /\ call = NoCall

(***************************************************************************)
(* The listing and the two point lookups.  These routes only read the      *)
(* table, which no request changes; their requests are served here one     *)
(* after another by a single worker.  The cache they share with the        *)
(* details route is exercised by concurrent workers in SpecDetails.        *)
(***************************************************************************)
InitAssets == InitWith(Stores, {EmptyFs}, 1)

NextAssets ==
    \E p \in 1..1 :
        \/ ReceiveAssets(p)
        \/ ReceiveByKuid(p)
        \/ ReceiveByFile(p)
        \/ CacheLookup(p)
        \/ get_assets(p)
        \/ get_asset_by_kuid(p)
        \/ get_asset_by_file(p)
        \/ Complete(p)

SpecAssets == InitAssets /\ [][NextAssets]_vars

(***************************************************************************)
(* The storage details, with the clock.                                    *)
(***************************************************************************)
DetailsTrees ==
    {<<FileNode(0, 10), LinkNode(0, "file", 100)>>,
     <<DirNode(0), FileNode(1, 100), FileNode(0, 10)>>}

\* The tables of the details runs: those of the first two rows.
DetailsStores == StoresUpTo(2)

InitDetails ==
    InitWith(DetailsStores, [full : DetailsTrees, low : {<<FileNode(0, 100)>>}], MaxProcs)

NextDetails ==
    \/ \E p \in 1..MaxProcs :
          \/ ReceiveDetails(p)
          \/ CacheLookup(p)
          \/ get_assets_details(p)
          \/ Complete(p)
    \/ Tick

SpecDetails == InitDetails /\ [][NextDetails]_vars

(***************************************************************************)
(* The helpers applied to inputs drawn from bounded sets.                  *)
(***************************************************************************)
SizeInputs ==
    (0..MaxBytes)
      \cup {Pow1024(k) + d : k \in {2, 3}, d \in (0 - NearBy)..NearBy}
      \cup {1536 * 1024, 1024 * 1024 - 52429, 1024 * 1024 - 52428, 2147483647}

InitSize == InitWith({{}}, {EmptyFs}, 1)

CallReadableSize ==
    /\ call = NoCall
    /\ \E n \in SizeInputs :
          call' = [fn |-> "readable_size", arg |-> <<n>>, ret |-> readable_size(n)]
    /\ UNCHANGED <<store, fs, now, cache, procs, nreq, sizeRuns>>

CallGetSize ==
    /\ call = NoCall
    /\ \E t \in Trees :
          call' = [fn |-> "get_size", arg |-> t, ret |-> <<get_size(t)>>]
    /\ UNCHANGED <<store, fs, now, cache, procs, nreq, sizeRuns>>

\* The caller takes the result; the next call can be made.
Return ==
    /\ call # NoCall
    /\ call' = NoCall
    /\ UNCHANGED <<store, fs, now, cache, procs, nreq, sizeRuns>>

NextSize == CallReadableSize \/ CallGetSize \/ Return

SpecSize == InitSize /\ [][NextSize]_vars

(***************************************************************************)
(* Properties.  Helper notions used to state them.                         *)
(***************************************************************************)
DoneOn(route) == {p \in Procs : procs[p].pc = "done" /\ procs[p].route = route}

\* The rows of the table a 200 listing response shows, found by their kuid.
Returned(resp) ==
    {a \in store : \E i \in 1..Len(resp.body.assets) : resp.body.assets[i] = AssetSchema(a)}

AscendingByUsername(list) ==
    \A i, j \in 1..Len(list) : i < j => TextLeq(list[i].username, list[j].username)

\* A listing response shows exactly the rows of `want`, each once, in
\* ascending order of username; with nothing to show it is the 404.
ShowsExactly(resp, want) ==
    IF want = {} THEN resp.status = 404
    ELSE /\ resp.status = 200
         /\ Returned(resp) = want
         /\ Len(resp.body.assets) = Cardinality(want)
         /\ \A i \in 1..Len(resp.body.assets) :
               \E a \in want : resp.body.assets[i] = AssetSchema(a)
         /\ AscendingByUsername(resp.body.assets)

\* C1: a listing asked with only the revision parameter r shows exactly the
\* rows whose revision is strictly greater than r, ascending by username.
C1_RevisionOnly ==
    \A p \in DoneOn("assets") :
        LET args == procs[p].args
        IN  (args.revision # None /\ args.last_update = None)
              => ShowsExactly(procs[p].resp,
                              {a \in store : a.revision > args.revision[1]})

\* C1 witness: a revision-only listing that leaves a row out and shows two
\* rows of different usernames.
C1_Witness ==
    \E p \in DoneOn("assets") :
        /\ procs[p].args.revision # None
        /\ procs[p].args.last_update = None
        /\ procs[p].resp.status = 200
        /\ Len(procs[p].resp.body.assets) = 2
        /\ procs[p].resp.body.assets[1].username # procs[p].resp.body.assets[2].username
        /\ \E a \in store : a.revision <= procs[p].args.revision[1]

\* C4: a listing asked with both parameters shows exactly the rows whose
\* last_update is strictly greater than the given one, whatever their revision.
C4_LastUpdateWins ==
    \A p \in DoneOn("assets") :
        LET args == procs[p].args
        IN  (args.revision # None /\ args.last_update # None)
              => ShowsExactly(procs[p].resp,
                              {a \in store : a.last_update > args.last_update[1]})

\* C4 witness: with both parameters given, a row is shown whose revision is
\* not greater than the revision asked for.
C4_Witness ==
    \E p \in DoneOn("assets") :
        /\ procs[p].args.revision # None
        /\ procs[p].args.last_update # None
        /\ procs[p].resp.status = 200
        /\ \E a \in Returned(procs[p].resp) : a.revision <= procs[p].args.revision[1]

\* The rows the active filter of a listing selects.
ActiveSelection(args) ==
    IF args.last_update # None THEN {a \in store : a.last_update > args.last_update[1]}
    ELSE IF args.revision # None THEN {a \in store : a.revision > args.revision[1]}
    ELSE store

\* C5: a listing answers 404 "No assets found" exactly when the selected set
\* is empty, and 200 with a non-empty list otherwise.
C5_NotFoundIffEmpty ==
    \A p \in DoneOn("assets") :
        LET resp == procs[p].resp
        IN  /\ resp.status \in {200, 404}
            /\ resp.status = 404 <=> ActiveSelection(procs[p].args) = {}
            /\ resp.status = 404 => resp.body.detail = "No assets found"
            /\ resp.status = 200 => Len(resp.body.assets) > 0

\* C5 witness: a 404 listing over a table that holds rows.
C5_Witness ==
    \E p \in DoneOn("assets") : procs[p].resp.status = 404 /\ store # {}

\* C6: lastRevision of a 200 listing is the greatest revision shown in it.
C6_LastRevisionIsMaxShown ==
    \A p \in DoneOn("assets") :
        LET resp == procs[p].resp
        IN  resp.status = 200 =>
              /\ \E i \in 1..Len(resp.body.assets) :
                    resp.body.assets[i].revision = resp.body.last_revision
              /\ \A i \in 1..Len(resp.body.assets) :
                    resp.body.assets[i].revision <= resp.body.last_revision

\* C6 witness: a 200 listing of two rows whose lastRevision is below the
\* greatest revision in the table.
C6_Witness ==
    \E p \in DoneOn("assets") :
        /\ procs[p].resp.status = 200
        /\ Len(procs[p].resp.body.assets) = 2
        /\ \E a \in store : a.revision > procs[p].resp.body.last_revision

\* The text between the colons of s.
RECURSIVE ColonFields(_)
ColonFields(s) ==
    IF \A i \in 1..Len(s) : s[i] # ":" THEN <<s>>
    ELSE LET c == CHOOSE i \in 1..Len(s) : s[i] = ":" /\ \A j \in 1..(i - 1) : s[j] # ":"
         IN  <<SubSeq(s, 1, c - 1)>> \o ColonFields(SubSeq(s, c + 1, Len(s)))

IsNumber(f) == f # <<>> /\ \A i \in 1..Len(f) : f[i] \in {"0", "1", "2", "3", "4", "5", "6", "7", "8", "9"}

IsSignedNumber(f) == IsNumber(f) \/ (f # <<>> /\ Head(f) = "-" /\ IsNumber(Tail(f)))

\* The whole text has the shape kuid:<int>:<nat> or kuid2:<int>:<nat>:<nat>.
WellFormedKuid(s) ==
    LET f == ColonFields(s)
    IN  \/ /\ Len(f) = 3
           /\ f[1] = <<"k", "u", "i", "d">>
           /\ IsSignedNumber(f[2]) /\ IsNumber(f[3])
        \/ /\ Len(f) = 4
           /\ f[1] = <<"k", "u", "i", "d", "2">>
           /\ IsSignedNumber(f[2]) /\ IsNumber(f[3]) /\ IsNumber(f[4])

\* A point lookup's answer for the rows of the table that carry the key.
AnswersFor(resp, matching, key, field) ==
    IF matching = {} THEN resp = [status |-> 404, body |-> [detail |-> "Asset not found"]]
    ELSE /\ resp.status = 200
         /\ \E a \in matching : resp.body = AssetSchema(a)
         /\ resp.body[field] = key

\* C7: a lookup by a well-formed kuid (by a 32-character fileId) answers 200
\* with the row that carries that key when there is one, and 404 otherwise.
C7_PointLookups ==
    /\ \A p \in DoneOn("by-kuid") :
          WellFormedKuid(procs[p].args.kuid) =>
              AnswersFor(procs[p].resp,
                         {a \in store : a.kuid = procs[p].args.kuid},
                         procs[p].args.kuid, "kuid")
    /\ \A p \in DoneOn("by-file") :
          Len(procs[p].args.file_id) = 32 =>
              AnswersFor(procs[p].resp,
                         {a \in store : a.file_id = procs[p].args.file_id},
                         procs[p].args.file_id, "file_id")

\* C7 witness: a lookup by fileId answered 200 from a table of three rows,
\* after an earlier request.
C7_Witness ==
    /\ Cardinality(store) = 3
    /\ nreq = 2
    /\ \E p \in DoneOn("by-file") : procs[p].resp.status = 200

\* C8: a lookup whose kuid is not well formed, or whose fileId is not 32
\* characters long, ends in the validation error and issues no query; a
\* lookup reaches its handler, or issues a query, only with a valid key.
C8_ValidationFirst ==
    \A p \in Procs :
        LET r == procs[p]
            bad == \/ r.route = "by-kuid" /\ ~WellFormedKuid(r.args.kuid)
                   \/ r.route = "by-file" /\ Len(r.args.file_id) # 32
        IN  bad => /\ r.pc = "done"
                   /\ r.resp.status = 422
                   /\ r.queries = 0

\* C8 witness: the kuid "not-a-valid-kuid" answered with the validation
\* error over a table that holds rows.
C8_Witness ==
    /\ store # {}
    /\ \E p \in DoneOn("by-kuid") :
          /\ procs[p].args.kuid =
               <<"n", "o", "t", "-", "a", "-", "v", "a", "l", "i", "d", "-", "k", "u", "i", "d">>
          /\ procs[p].resp.status = 422
          /\ procs[p].queries = 0

DetailsKey == KeyOf("details", NoArgs)

\* The stored details responses that are still within their window
\* (strictly), and those whose window has passed.
FreshDetails == {e \in cache : e.key = DetailsKey /\ e.ttl_ts > now}

StaleDetails == {e \in cache : e.key = DetailsKey /\ e.ttl_ts < now}

\* C2 as stated: requests that arrive in one cache window (here: while the
\* clock stands at its first instant), over a table that holds rows, cause
\* at most one computation of the directory sizes.
C2_OneComputationPerWindow == (now = 0 /\ store # {}) => sizeRuns <= 1

\* One step of the service, seen from the details route.
C2_Step ==
    /\ sizeRuns' \in {sizeRuns, sizeRuns + 1}
    /\ \A p \in Procs :
          (procs[p].route = "details" /\ procs[p].pc = "cache" /\ procs'[p].pc # "cache") =>
              /\ FreshDetails # {} =>
                    /\ procs'[p].pc = "done"
                    /\ procs'[p].queries = 0
                    /\ sizeRuns' = sizeRuns
                    /\ \E e \in FreshDetails : procs'[p].resp = [status |-> 200, body |-> e.value]
              /\ (StaleDetails # {} \/ \A e \in cache : e.key # DetailsKey) =>
                    procs'[p].pc = "handler"
    /\ \A p \in Procs :
          (procs[p].route = "details" /\ procs[p].pc = "handler" /\ procs'[p].pc # "handler") =>
              /\ sizeRuns' = sizeRuns + 1
              /\ procs'[p].resp.status = 200 =>
                    \E e \in cache' : /\ e.key = DetailsKey
                                      /\ e.ttl_ts = now + Expire
                                      /\ e.value = procs'[p].resp.body
    /\ sizeRuns' # sizeRuns =>
          \E p \in Procs : procs[p].pc = "handler" /\ procs'[p].pc = "done"

\* C2 amended: a details request computes the directory sizes at most once,
\* and only when its cache lookup found no stored response or an expired
\* one; a request that looks up within the window of a stored response is
\* answered from the cache without any computation, and a request that looks
\* up after the window has passed goes on to recompute and stores its result
\* for the next 5 minutes.  Two requests that both look up before either has
\* stored its result each compute.
C2_ComputeOnMiss == [][C2_Step]_vars

\* C2 witness: two requests, the second answered from the cache at a later
\* time within the window: one computation.
C2_Witness ==
    /\ nreq = 2
    /\ sizeRuns = 1
    /\ now > 0
    /\ \E p \in DoneOn("details") : procs[p].hit /\ procs[p].resp.status = 200

\* The sum of the sizes of the regular files of a tree.
RECURSIVE RegularFileBytes(_)
RegularFileBytes(tree) ==
    IF tree = <<>> THEN 0
    ELSE LET nd == tree[Len(tree)]
         IN  (IF nd.kind = "file" THEN nd.size ELSE 0)
               + RegularFileBytes(SubSeq(tree, 1, Len(tree) - 1))

\* C10 as stated: every details request, over any table, the empty one
\* included, is answered 200 with the greatest revision of the table and the
\* raw and readable sizes of both directories.
C10_DetailsAlwaysOk ==
    \A p \in DoneOn("details") :
        LET resp == procs[p].resp
        IN  /\ resp.status = 200
            /\ \A a \in store : a.revision <= resp.body.current_revision
            /\ store # {} => \E a \in store : a.revision = resp.body.current_revision
            /\ resp.body.full_bytes = RegularFileBytes(fs.full)
            /\ resp.body.low_bytes = RegularFileBytes(fs.low)
            /\ resp.body.full_human = readable_size(resp.body.full_bytes)
            /\ resp.body.low_human = readable_size(resp.body.low_bytes)

\* The text the claim gives for n bytes: bytes up to 1023, else the largest
\* unit in which n is at least one, to one decimal.
ClaimedUnit(n) ==
    IF n \div 1024 = 0 THEN 0
    ELSE IF n \div (1024 * 1024) = 0 THEN 1
    ELSE IF n \div (1024 * 1024 * 1024) = 0 THEN 2
    ELSE 3

ClaimedText(n) ==
    IF ClaimedUnit(n) = 0 THEN BytesText(n) ELSE UnitText(n, ClaimedUnit(n))

\* C3 as stated: readable_size renders 0..1023 in bytes, and n >= 1024 in the
\* largest unit whose magnitude is at least 1.0, with one decimal place.
C3_ReadableSize ==
    call.fn = "readable_size" => call.ret = ClaimedText(call.arg[1])

\* C9: get_size returns the sum of the sizes of the regular files at any
\* depth; links and directories add nothing.
C9_GetSize ==
    call.fn = "get_size" => call.ret = <<RegularFileBytes(call.arg)>>

\* C9 witness: a 10-byte file beside a link to a 100-byte file measures 10.
C9_Witness ==
    /\ call.fn = "get_size"
    /\ call.arg = <<FileNode(0, 10), LinkNode(0, "file", 100)>>
    /\ call.ret = <<10>>

=============================================================================
